---------------------------- MODULE Spec2Model ----------------------------
(***************************************************************************)
(* Distributed transposition table of joeljk13/distributed-stockfish.      *)
(*                                                                         *)
(* The sources hold three variants of tt.cpp:                              *)
(*   - src/unnamed/part_002   the cache variant (MPI window, Local Read    *)
(*                            Cache, Write Buffer),                        *)
(*   - src/src/tt.cpp 1-162   the send/recv variant,                       *)
(*   - src/src/tt.cpp 164-377 the replicated variant (clusterOp and        *)
(*                            updateLoop),                                 *)
(* the header src/unnamed/part_001 (TTEntry) and main.cpp in               *)
(* src/unnamed/part_003 (init_mpi).                                        *)
(*                                                                         *)
(* A 64-bit position key is a record [hi, mid, lo]: hi = key >> 48,        *)
(* mid = (key >> 32) & 0xFFFF, lo = key & 0xFFFFFFFF.                      *)
(***************************************************************************)
EXTENDS Integers, Sequences, FiniteSets, TLC

VARIABLES
    mpi_rank, mpi_size,          \* part_003:39-40, set by init_mpi
    clusterCount, generation8,   \* TranspositionTable fields
    table,                       \* table[r][i]: Cluster i of the store of rank r
    cache,                       \* Local Read Cache of this node
    buffer_size, cluster_buffer, key_buffer, rank_buffer,  \* Write Buffer
    cluster_buf,                 \* the caller's Cluster passed to probe and save
    dtte, found, pkey,           \* handle, flag and key of the last probe
    pc,                          \* "idle" | "probed": position of the search thread
    hfResult, hfAllCurrent,      \* last hashfull() result / its sample was all current
    lastSave,                    \* history: arguments and slot of the last local Save
    nsaves, id_buffer, putlog,   \* history: numbered remote Saves, applied Puts
    flushed, lastProbe,          \* history: ids of the last flush, path of last probe
    fresh,                       \* history: per key, cache insertions since its Get hit
    invec, inoutvec, thirdvec,   \* clusterOp operands (replicated variant)
    mergeOut, mergeKind,         \* result of the last reduction step
    variant,                     \* which tt.cpp is built: "cache" | "sendrecv" | "replicated"
    checkFired, gotKey,          \* history: integrity check of the last probe fired /
                                 \* the tag the last MPI_Get delivered
    mpi_lock, win_lock, thr,     \* holder of mpi_lock, held window locks, search threads
    stop, ubatch, upc, cbatch,   \* Search::Signals.stop; updateLoop's i, position and c[]
    stopReads,                   \* history: reads of stop in the current batch
    applied,                     \* history: clusters of the current batch written back
    loops                        \* updateLoop of every rank: position, its stop flag,
                                 \* and as history the reductions it took part in

nodeVars  == <<mpi_rank, mpi_size, clusterCount, variant>>
bufVars   == <<buffer_size, cluster_buffer, key_buffer, rank_buffer>>
probeVars == <<cluster_buf, dtte, found, pkey, pc>>
hashVars  == <<hfResult, hfAllCurrent>>
distHist  == <<nsaves, id_buffer, putlog, flushed, lastProbe, fresh>>
mergeVars == <<invec, inoutvec, thirdvec, mergeOut, mergeKind>>
checkVars == <<checkFired, gotKey>>
lockVars  == <<mpi_lock, win_lock, thr>>
loopVars  == <<stop, ubatch, upc, cbatch, stopReads, applied, loops>>
vars == <<nodeVars, generation8, table, cache, bufVars, probeVars, hashVars,
          lastSave, distHist, mergeVars, checkVars, lockVars,
                   loopVars>>

---------------------------------------------------------------------------
(* Program constants *)

ClusterSize == 3
GenStep == 4
BOUND_EXACT == 3
BOUND_LOWER == 2
MOVE_NONE == 0

RECURSIVE Pow2(_)
Pow2(n) == IF n = 0 THEN 1 ELSE 2 * Pow2(n - 1)

(* Bounds of the model *)

\* log2 of clusterCount in the replacement and distributed specifications
ClusterBits == 1
\* log2 of clusterCount in the hashfull specification (>= 1000 / ClusterSize clusters)
HashBits == 9
\* new_search() calls per run where the generation is not left to wrap freely
MaxSearches == 2
\* capacity of the Write Buffer (DistTTEntry::MaxBuffer)
MaxBuffer == 2
\* log2 of the capacity of the Local Read Cache (CacheCount)
CacheBits == 1
\* number of nodes in the distributed specification (at most 8: bool locked[8])
NumNodes == 3

\* remote Saves per run beyond the MaxBuffer that fill the Write Buffer
ExtraSaves == 1

\* found probes counted in a cluster's padding (replicated variant) per run
MaxPadding == 2

\* search threads of one node in the thread-level specification
NumThreads == 2

\* batch reductions a run of the merge loops goes through before every stop
\* flag has been raised
MaxReductions == 2

\* clusters per batch of updateLoop (Batch), scaled down from 256
Batch == 2

CacheCount == Pow2(CacheBits)

---------------------------------------------------------------------------
(* Machine arithmetic *)

\* a & b on non-negative integers, bit by bit
RECURSIVE BitAnd(_, _)
BitAnd(a, b) ==
    IF a = 0 \/ b = 0 THEN 0
    ELSE (a % 2) * (b % 2) + 2 * BitAnd(a \div 2, b \div 2)

\* a | b on non-negative integers, bit by bit
RECURSIVE BitOr(_, _)
BitOr(a, b) ==
    IF a = 0 THEN b
    ELSE IF b = 0 THEN a
    ELSE (IF a % 2 = 1 \/ b % 2 = 1 THEN 1 ELSE 0) + 2 * BitOr(a \div 2, b \div 2)

ToUint8(x)  == x % 256
ToUint16(x) == x % 65536
ToInt8(x)   == ((x + 128) % 256) - 128
ToInt16(x)  == ((x + 32768) % 65536) - 32768

---------------------------------------------------------------------------
(* TTEntry and Cluster *)

ZeroEntry ==
    [key16 |-> 0, move16 |-> 0, value16 |-> 0, eval16 |-> 0,
     genBound8 |-> 0, depth8 |-> 0]

ZeroEntries == [j \in 1..ClusterSize |-> ZeroEntry]

\* memset(table, 0, ...) followed by table[i].key = i
FreshTable(count) ==
    [i \in 0..(count - 1) |-> [entry |-> ZeroEntries, key |-> ToUint16(i)]]

\* TTEntry::bound()
BoundOf(e) == BitAnd(e.genBound8, 3)

\* TTEntry::save(k, v, b, d, m, ev, g), ONE_PLY = 1
TTEntrySaveNoExact(e, k, v, b, d, m, ev, g) ==
    LET mv == IF m # MOVE_NONE \/ k.hi # e.key16 THEN ToUint16(m) ELSE e.move16
    IN  IF k.hi # e.key16 \/ d > e.depth8 - 4
        THEN [key16 |-> k.hi, move16 |-> mv, value16 |-> ToInt16(v),
              eval16 |-> ToInt16(ev), genBound8 |-> ToUint8(BitOr(g, b)),
              depth8 |-> ToInt8(d)]
        ELSE [e EXCEPT !.move16 = mv]

TTEntrySaveMoveAlways(e, k, v, b, d, m, ev, g) ==
    IF k.hi # e.key16 \/ d > e.depth8 - 4 \/ b = BOUND_EXACT
    THEN [key16 |-> k.hi, move16 |-> ToUint16(m), value16 |-> ToInt16(v),
          eval16 |-> ToInt16(ev), genBound8 |-> ToUint8(BitOr(g, b)),
          depth8 |-> ToInt8(d)]
    ELSE [e EXCEPT !.move16 = ToUint16(m)]

TTEntrySave(e, k, v, b, d, m, ev, g) ==
    LET mv == IF m # MOVE_NONE \/ k.hi # e.key16 THEN ToUint16(m) ELSE e.move16
    IN  IF k.hi # e.key16 \/ d > e.depth8 - 4 \/ b = BOUND_EXACT
        THEN [key16 |-> k.hi, move16 |-> mv, value16 |-> ToInt16(v),
              eval16 |-> ToInt16(ev), genBound8 |-> ToUint8(BitOr(g, b)),
              depth8 |-> ToInt8(d)]
        ELSE [e EXCEPT !.move16 = mv]

RefreshedNoBound(gen, e) == gen

\* uint8_t(generation8 | tte[i].bound()): the refresh of probe
Refreshed(gen, e) == ToUint8(BitOr(gen, BoundOf(e)))

---------------------------------------------------------------------------
(* Replacement policy *)

AgeTermNoBias(gen, gb) == BitAnd(256 + gen - gb, 252)

\* (259 + generation8 - genBound8) & 0xFC
AgeTerm(gen, gb) == BitAnd(259 + gen - gb, 252)

\* depth8 - ((259 + generation8 - genBound8) & 0xFC) * 2
ReplaceValue(e, gen) == e.depth8 - AgeTerm(gen, e.genBound8) * 2

\* the scan for the first entry that is empty or carries key16; 0 when none
RECURSIVE ScanFrom(_, _, _)
ScanFrom(tte, key16, i) ==
    IF i > ClusterSize THEN 0
    ELSE IF tte[i].key16 = 0 \/ tte[i].key16 = key16 THEN i
    ELSE ScanFrom(tte, key16, i + 1)

RECURSIVE ReplaceFromLast(_, _, _, _)
ReplaceFromLast(tte, gen, replace, i) ==
    IF i > ClusterSize THEN replace
    ELSE IF ReplaceValue(tte[replace], gen) >= ReplaceValue(tte[i], gen)
         THEN ReplaceFromLast(tte, gen, i, i + 1)
         ELSE ReplaceFromLast(tte, gen, replace, i + 1)

\* the victim loop: replace starts at the first entry, i runs over the others
RECURSIVE ReplaceFrom(_, _, _, _)
ReplaceFrom(tte, gen, replace, i) ==
    IF i > ClusterSize THEN replace
    ELSE IF ReplaceValue(tte[replace], gen) > ReplaceValue(tte[i], gen)
         THEN ReplaceFrom(tte, gen, i, i + 1)
         ELSE ReplaceFrom(tte, gen, replace, i + 1)

---------------------------------------------------------------------------
(* Partitioning *)

\* key >> 48
Key16(k) == k.hi

\* ((key >> 32) & 7) % mpi_size
OwnerRank(k, size) == BitAnd(k.mid, 7) % size

\* (size_t)key & (clusterCount - 1)
ClusterKey(k, count) == BitAnd(k.lo, count - 1)

MkKey(h, m, l) == [hi |-> h, mid |-> m, lo |-> l]

NoKey == MkKey(0, 0, 0)
NoHandle == [key |-> 0, rank |-> 0, loc |-> "none", slot |-> 0, idx |-> 0]
NoSave == [key |-> NoKey, v |-> 0, b |-> 0, d |-> 0, m |-> 0,
           held |-> FALSE, oldMove |-> 0, n |-> 0]

---------------------------------------------------------------------------
(* hashfull() *)

\* the inner loop: entries of one cluster whose generation bits equal generation8
RECURSIVE CountGen(_, _, _)
CountGen(tte, gen, j) ==
    IF j > ClusterSize THEN 0
    ELSE (IF BitAnd(tte[j].genBound8, 252) = gen THEN 1 ELSE 0)
         + CountGen(tte, gen, j + 1)

SampleClusters == 1000 \div ClusterSize

\* the outer loop over clusters lo .. hi-1, summed by halves
RECURSIVE HashfullRange(_, _, _, _)
HashfullRange(tab, gen, lo, hi) ==
    IF hi <= lo THEN 0
    ELSE IF hi = lo + 1 THEN CountGen(tab[lo].entry, gen, 1)
    ELSE LET mid == (lo + hi) \div 2
         IN  HashfullRange(tab, gen, lo, mid) + HashfullRange(tab, gen, mid, hi)

HashfullShort(tab, gen) == HashfullRange(tab, gen, 0, SampleClusters - 1)

\* int TranspositionTable::hashfull() const
HashfullOf(tab, gen) == HashfullRange(tab, gen, 0, SampleClusters)

---------------------------------------------------------------------------
(* Initial states: main() has run init_mpi and TT.resize(Options["Hash"]).  *)
(* The statics (generation8, the Write Buffer) are zero-initialised, the    *)
(* cache is calloc'ed, every store is zeroed and tagged by resize.          *)

InitStores(rank, size, count, tab) ==
    /\ mpi_rank = rank
    /\ mpi_size = size
    /\ clusterCount = count
    /\ generation8 = 0
    /\ table = tab
    /\ cache = [c \in 0..(CacheCount - 1) |-> ZeroEntries]
    /\ buffer_size = 0
    /\ cluster_buffer = [i \in 0..(MaxBuffer - 1) |-> [entry |-> ZeroEntries, key |-> 0]]
    /\ key_buffer = [i \in 0..(MaxBuffer - 1) |-> 0]
    /\ rank_buffer = [i \in 0..(MaxBuffer - 1) |-> 0]
    /\ cluster_buf = [entry |-> ZeroEntries, key |-> 0]
    /\ dtte = NoHandle
    /\ found = FALSE
    /\ pkey = NoKey
    /\ pc = "idle"
    /\ hfResult = -1
    /\ hfAllCurrent = FALSE
    /\ lastSave = NoSave
    /\ nsaves = 0
    /\ id_buffer = [i \in 0..(MaxBuffer - 1) |-> 0]
    /\ putlog = <<>>
    /\ flushed = {}
    /\ lastProbe = "none"

\* every store as resize of the cache variant leaves it
InitNode(rank, size, count) ==
    InitStores(rank, size, count, [r \in 0..(size - 1) |-> FreshTable(count)])

\* one search thread and no merge loop
InitThreadsLoop ==
    /\ checkFired = FALSE
    /\ gotKey = -1
    /\ mpi_lock = 0
    /\ win_lock = {}
    /\ thr = <<>>
    /\ stop = FALSE
    /\ ubatch = 0
    /\ upc = "off"
    /\ cbatch = <<>>
    /\ stopReads = 0
    /\ applied = 0
    /\ loops = <<>>

\* the cache variant with one search thread and no merge loop
InitRest ==
    /\ variant = "cache"
    /\ InitThreadsLoop

InitNoMerge ==
    /\ invec = [entry |-> ZeroEntries, padding |-> 0]
    /\ inoutvec = [entry |-> ZeroEntries, padding |-> 0]
    /\ thirdvec = [entry |-> ZeroEntries, padding |-> 0]
    /\ mergeOut = [entry |-> ZeroEntries, padding |-> 0]
    /\ mergeKind = "none"

---------------------------------------------------------------------------
(* Operations on keys owned by the local node *)

\* the integrity check  tag != dtte.key  of probe, tag being a uint16_t.  The
\* handle's key field holds cluster_key; its type is declared in the cache
\* variant's tt.h, so it is either as wide as cluster_key or a uint16_t.
TagCheck(tag, cluster_key) == {tag # cluster_key, tag # ToUint16(cluster_key)}

\* TranspositionTable::probe, owner_rank == mpi_rank
ProbeLocal(k) ==
    /\ OwnerRank(k, mpi_size) = mpi_rank
    /\ LET ck  == ClusterKey(k, clusterCount)
           tte == table[mpi_rank][ck].entry
           i   == ScanFrom(tte, Key16(k), 1)
       IN  /\ cluster_buf' = [cluster_buf EXCEPT !.key = ToUint16(ck)]
           /\ IF i # 0
              THEN /\ table' =
                        IF BitAnd(tte[i].genBound8, 252) # generation8 /\ tte[i].key16 # 0
                        THEN [table EXCEPT ![mpi_rank][ck].entry[i].genBound8 =
                                  Refreshed(generation8, tte[i])]
                        ELSE table
                   /\ dtte' = [key |-> ck, rank |-> mpi_rank, loc |-> "table",
                               slot |-> ck, idx |-> i]
                   /\ found' = (tte[i].key16 # 0)
              ELSE /\ table' = table
                   /\ dtte' = [key |-> ck, rank |-> mpi_rank, loc |-> "table",
                               slot |-> ck, idx |-> ReplaceFrom(tte, generation8, 1, 2)]
                   /\ found' = FALSE
    /\ pkey' = k
    /\ pc' = "probed"
    /\ lastProbe' = "local"
    /\ checkFired' \in TagCheck(table[mpi_rank][ClusterKey(k, clusterCount)].key,
                                ClusterKey(k, clusterCount))
    /\ gotKey' = gotKey
    /\ UNCHANGED <<nodeVars, generation8, cache, bufVars, hashVars, lastSave,
                   nsaves, id_buffer, putlog, flushed, fresh, mergeVars, lockVars,
                   loopVars>>

\* tte->save(...) on a handle into the local store, then DistTTEntry::save,
\* which returns at once because rank == mpi_rank
SaveLocal(v, b, d, m, ev) ==
    /\ pc = "probed"
    /\ dtte.loc = "table"
    /\ dtte.rank = mpi_rank
    /\ LET old == table[mpi_rank][dtte.slot].entry[dtte.idx]
       IN  /\ table' = [table EXCEPT ![mpi_rank][dtte.slot].entry[dtte.idx] =
                            TTEntrySave(old, pkey, v, b, d, m, ev, generation8)]
           /\ lastSave' = [key |-> pkey, v |-> v, b |-> b, d |-> d, m |-> m,
                           held |-> (old.key16 = Key16(pkey)),
                           oldMove |-> old.move16, n |-> 1]
    /\ pc' = "idle"
    /\ UNCHANGED <<nodeVars, generation8, cache, bufVars, cluster_buf, dtte, found,
                   pkey, hashVars, distHist, mergeVars, checkVars, lockVars,
                   loopVars>>

\* TranspositionTable::new_search: generation8 += 4 on a uint8_t.  It is called
\* before a search starts, so no handle of the previous search is in use.
NewSearch ==
    /\ generation8' = ToUint8(generation8 + GenStep)
    /\ pc' = "idle"
    /\ UNCHANGED <<nodeVars, table, cache, bufVars, cluster_buf, dtte, found, pkey,
                   hashVars, lastSave, distHist, mergeVars, checkVars, lockVars,
                   loopVars>>

AllSampledCurrent ==
    \A i \in 0..(SampleClusters - 1) : \A j \in 1..ClusterSize :
        BitAnd(table[mpi_rank][i].entry[j].genBound8, 252) = generation8

\* TranspositionTable::hashfull.  It reads table[0 .. 1000/ClusterSize - 1]
\* whatever clusterCount is; resize never makes a table that small.
Hashfull ==
    /\ clusterCount >= SampleClusters
    /\ hfResult' = HashfullOf(table[mpi_rank], generation8)
    /\ hfAllCurrent' = AllSampledCurrent
    /\ UNCHANGED <<nodeVars, generation8, table, cache, bufVars, probeVars, lastSave,
                   distHist, mergeVars, checkVars, lockVars,
                   loopVars>>

---------------------------------------------------------------------------
(* Specification of one node alone with the generation wrapping freely *)

WrapKeys == {MkKey(1, 0, 0)}
WrapBounds == {BOUND_LOWER, BOUND_EXACT}

InitWrap ==
    /\ InitNode(0, 1, 1)
    /\ fresh = [k \in WrapKeys |-> -1]
    /\ InitNoMerge
    /\ InitRest

NextWrap ==
    \/ \E k \in WrapKeys : ProbeLocal(k)
    \/ \E b \in WrapBounds, d \in {5, 20} : SaveLocal(1, b, d, 7, 0)
    \/ NewSearch

SpecWrap == InitWrap /\ [][NextWrap]_vars

(* Specification of one node alone: Save followed by Probe *)

SaveKeys == {MkKey(h, 0, 0) : h \in {0, 1}}

InitSave ==
    /\ InitNode(0, 1, 1)
    /\ fresh = [k \in SaveKeys |-> -1]
    /\ InitNoMerge
    /\ InitRest

NextSave ==
    \/ \E k \in SaveKeys : ProbeLocal(k)
    \/ \E v \in {1, 2}, b \in WrapBounds, d \in {1, 9}, m \in {MOVE_NONE, 7} :
           SaveLocal(v, b, d, m, 0)
    \/ (generation8 < GenStep /\ NewSearch)

SpecSave == InitSave /\ [][NextSave]_vars

(* Specification of one node alone: replacement in a full cluster *)

ReplKeys == {MkKey(h, 0, 0) : h \in 1..4}

InitRepl ==
    /\ InitNode(0, 1, Pow2(ClusterBits))
    /\ fresh = [k \in ReplKeys |-> -1]
    /\ InitNoMerge
    /\ InitRest

NextRepl ==
    \/ \E k \in ReplKeys : ProbeLocal(k)
    \/ \E d \in {1, 9} : SaveLocal(1, BOUND_LOWER, d, 7, 0)
    \/ (generation8 < MaxSearches * GenStep /\ NewSearch)

SpecRepl == InitRepl /\ [][NextRepl]_vars

(* Specification of one node alone: hashfull over a table of full sample size *)

HashKeys == {MkKey(1, 0, l) : l \in {0, SampleClusters}}

InitHash ==
    /\ InitNode(0, 1, Pow2(HashBits))
    /\ fresh = [k \in HashKeys |-> -1]
    /\ InitNoMerge
    /\ InitRest

NextHash ==
    \/ \E k \in HashKeys : ProbeLocal(k)
    \/ \E b \in WrapBounds : SaveLocal(1, b, 1, 7, 0)
    \/ (generation8 < MaxSearches * GenStep /\ NewSearch)
    \/ Hashfull

SpecHash == InitHash /\ [][NextHash]_vars

(* Clear, and Probe of the replicated variant *)

\* calloc of the replicated variant's resize: a Cluster is [entry, padding]
ReplicatedTable(count) ==
    [i \in 0..(count - 1) |-> [entry |-> ZeroEntries, padding |-> 0]]

\* std::memset(table, 0, clusterCount * sizeof(Cluster))
ZeroedTable(tab) ==
    [i \in DOMAIN tab |-> [f \in DOMAIN tab[i] |->
        IF f = "entry" THEN ZeroEntries ELSE 0]]

\* TranspositionTable::probe of the replicated variant (src/src/tt.cpp 239-269):
\* the local scan, refresh and victim choice, and ++padding of the cluster when
\* the key is found
ProbeReplicated(k) ==
    /\ variant = "replicated"
    /\ LET ck  == ClusterKey(k, clusterCount)
           tte == table[mpi_rank][ck].entry
           i   == ScanFrom(tte, Key16(k), 1)
       IN  IF i # 0
           THEN /\ table' =
                     [table EXCEPT ![mpi_rank][ck] =
                        [entry |->
                            IF BitAnd(tte[i].genBound8, 252) # generation8 /\ tte[i].key16 # 0
                            THEN [tte EXCEPT ![i].genBound8 =
                                     Refreshed(generation8, tte[i])]
                            ELSE tte,
                         padding |-> IF tte[i].key16 # 0 THEN ToUint16(@.padding + 1)
                                     ELSE @.padding]]
                /\ dtte' = [key |-> ck, rank |-> mpi_rank, loc |-> "table",
                            slot |-> ck, idx |-> i]
                /\ found' = (tte[i].key16 # 0)
           ELSE /\ table' = table
                /\ dtte' = [key |-> ck, rank |-> mpi_rank, loc |-> "table",
                            slot |-> ck, idx |-> ReplaceFrom(tte, generation8, 1, 2)]
                /\ found' = FALSE
    /\ pkey' = k
    /\ pc' = "probed"
    /\ lastProbe' = "local"
    /\ UNCHANGED <<nodeVars, generation8, cache, bufVars, cluster_buf, hashVars,
                   lastSave, nsaves, id_buffer, putlog, flushed, fresh, mergeVars,
                   checkVars, lockVars, loopVars>>

\* TranspositionTable::clear.  The cache variant (part_002:78-82) and the
\* send/recv variant (tt.cpp:67-71) call abort() first: the process ends and the
\* memset is never reached.  The replicated variant (tt.cpp:226-229) zeroes the
\* store and returns.
Clear ==
    /\ pc # "aborted"
    /\ IF variant = "replicated"
       THEN /\ table' = [table EXCEPT ![mpi_rank] = ZeroedTable(@)]
            /\ pc' = "cleared"
       ELSE /\ table' = table
            /\ pc' = "aborted"
    /\ UNCHANGED <<nodeVars, generation8, cache, bufVars, cluster_buf, dtte, found,
                   pkey, hashVars, lastSave, distHist, mergeVars, checkVars, lockVars,
                   loopVars>>

(* Specification of one node alone, in each variant: Probe, Save and Clear *)

Variants == {"cache", "sendrecv", "replicated"}

ClearKeys == {MkKey(1, 0, 0), MkKey(2, 0, 0), MkKey(1, 0, 1)}

InitClear ==
    /\ variant \in Variants
    /\ InitStores(0, 1, Pow2(ClusterBits),
                  [r \in {0} |-> IF variant = "replicated"
                                 THEN ReplicatedTable(Pow2(ClusterBits))
                                 ELSE FreshTable(Pow2(ClusterBits))])
    /\ fresh = [k \in ClearKeys |-> -1]
    /\ InitNoMerge
    /\ InitThreadsLoop

NextClear ==
    \/ \E k \in ClearKeys : (pc # "aborted" /\ variant # "replicated" /\ ProbeLocal(k))
    \/ \E k \in ClearKeys :
           /\ variant = "replicated"
           /\ table[mpi_rank][ClusterKey(k, clusterCount)].padding < MaxPadding
           /\ ProbeReplicated(k)
    \/ \E b \in WrapBounds : SaveLocal(1, b, 1, 7, 0)
    \/ (generation8 < GenStep /\ pc # "aborted" /\ NewSearch)
    \/ Clear

SpecClear == InitClear /\ [][NextClear]_vars

(* Partitioning for every table size: clusterCount as 16-bit limbs *)
(* [w2, w1, w0] = bits 32..47, 16..31, 0..15                          *)

\* size_t(1) << bits, for bits < 48
WideCount(bits) ==
    [w2 |-> IF bits >= 32 THEN Pow2(bits - 32) ELSE 0,
     w1 |-> IF bits >= 16 /\ bits < 32 THEN Pow2(bits - 16) ELSE 0,
     w0 |-> IF bits < 16 THEN Pow2(bits) ELSE 0]

\* clusterCount - 1 for a power of two
WideMinusOne(c) ==
    [w2 |-> IF c.w2 > 0 THEN c.w2 - 1 ELSE 0,
     w1 |-> IF c.w2 > 0 THEN 65535 ELSE IF c.w1 > 0 THEN c.w1 - 1 ELSE 0,
     w0 |-> IF c.w2 > 0 \/ c.w1 > 0 THEN 65535 ELSE c.w0 - 1]

\* (size_t)key & (clusterCount - 1)
WideClusterKey(k, c) ==
    [w2 |-> BitAnd(k.mid, WideMinusOne(c).w2),
     w1 |-> BitAnd(k.lo \div 65536, WideMinusOne(c).w1),
     w0 |-> BitAnd(k.lo % 65536, WideMinusOne(c).w0)]

\* ((key >> 45) & 7) % mpi_size: the owner of the send/recv variant
OwnerRankSendRecv(k, size) == BitAnd(k.mid \div 8192, 7) % size

\* the head of probe: cluster_key, dtte.key and dtte.rank
ProbeHead(k) ==
    /\ variant \in {"cache", "sendrecv"}
    /\ dtte' = [key |-> WideClusterKey(k, clusterCount),
                rank |-> IF variant = "cache" THEN OwnerRank(k, mpi_size)
                         ELSE OwnerRankSendRecv(k, mpi_size),
                loc |-> "none", slot |-> 0, idx |-> 0]
    /\ pkey' = k
    /\ pc' = "probed"
    /\ UNCHANGED <<nodeVars, generation8, table, cache, bufVars, cluster_buf, found,
                   hashVars, lastSave, distHist, mergeVars, checkVars, lockVars,
                   loopVars>>

(* Specification of the partitioning alone *)

\* log2 of clusterCount: a small table, and the first sizes past 2^16 and 2^32
PartBits == {ClusterBits, ClusterBits + 16, ClusterBits + 32}

PartKeys ==
    {MkKey(1, m, l) : m \in {0, 1, 2, 5, 8192, 8193}, l \in {0, 1, 2, 65536, 65537}}

InitPart ==
    /\ variant \in {"cache", "sendrecv"}
    /\ \E bits \in PartBits, size \in 1..NumNodes :
           InitStores(0, size, WideCount(bits), <<>>)
    /\ fresh = [k \in {NoKey} |-> -1]
    /\ InitNoMerge
    /\ InitThreadsLoop

NextPart == \E k \in PartKeys : ProbeHead(k)

SpecPart == InitPart /\ [][NextPart]_vars

---------------------------------------------------------------------------
(* Operations on keys owned by another node (cache variant, part_002) *)

\* (key >> 32) & (CacheCount - 1)
CacheKey(k) == BitAnd(k.mid, CacheCount - 1)

\* the scan of a cache slot or of the fetched cluster for key16; 0 when absent
RECURSIVE CacheScan(_, _, _)
CacheScan(tte, key16, i) ==
    IF i > ClusterSize THEN 0
    ELSE IF tte[i].key16 = key16 THEN i
    ELSE CacheScan(tte, key16, i + 1)

CacheInsertNoShift(e, x) == [e EXCEPT ![1] = x]

\* e[j] = e[j - 1] for j = ClusterSize - 1 down to 1, then e[0] = x
CacheInsert(e, x) ==
    [j \in 1..ClusterSize |-> IF j = 1 THEN x ELSE e[j - 1]]

\* Probe of a remote key answered by the Local Read Cache: no lock, no MPI_Get;
\* cluster_buf keeps whatever entries it held
ProbeCacheHit(k) ==
    /\ OwnerRank(k, mpi_size) # mpi_rank
    /\ LET ck == ClusterKey(k, clusterCount)
           ce == CacheKey(k)
           i  == CacheScan(cache[ce], Key16(k), 1)
       IN  /\ i # 0
           /\ cluster_buf' = [cluster_buf EXCEPT !.key = ToUint16(ck)]
           /\ dtte' = [key |-> ck, rank |-> OwnerRank(k, mpi_size), loc |-> "cache",
                       slot |-> ce, idx |-> i]
    /\ found' = TRUE
    /\ pkey' = k
    /\ pc' = "probed"
    /\ lastProbe' = "cache"
    /\ checkFired' = FALSE
    /\ gotKey' = -1
    /\ UNCHANGED <<nodeVars, generation8, table, cache, bufVars, hashVars, lastSave,
                   nsaves, id_buffer, putlog, flushed, fresh, mergeVars, lockVars,
                   loopVars>>

\* history: the cache slot ce has taken one more entry, fetched for key k
FreshAfterInsert(fr, k, ce) ==
    [x \in DOMAIN fr |->
        IF x = k THEN 0
        ELSE IF fr[x] >= 0 /\ CacheKey(x) = ce
             THEN (IF fr[x] + 1 >= ClusterSize THEN -1 ELSE fr[x] + 1)
             ELSE fr[x]]

\* Probe of a remote key that misses the cache: mpi_lock, MPI_Win_lock, MPI_Get of
\* the owner's cluster into cluster_buf, unlock; cluster_buf.key = cluster_key is
\* assigned over the fetched tag and then compared with dtte.key; a matching entry
\* is put in front of the cache slot
ProbeGet(k) ==
    /\ OwnerRank(k, mpi_size) # mpi_rank
    /\ LET owner == OwnerRank(k, mpi_size)
           ck    == ClusterKey(k, clusterCount)
           ce    == CacheKey(k)
           got   == table[owner][ck].entry
           i     == CacheScan(got, Key16(k), 1)
       IN  /\ CacheScan(cache[ce], Key16(k), 1) = 0
           /\ cluster_buf' = [entry |-> got, key |-> ToUint16(ck)]
           /\ IF i # 0
              THEN /\ cache' = [cache EXCEPT ![ce] = CacheInsert(@, got[i])]
                   /\ dtte' = [key |-> ck, rank |-> owner, loc |-> "buf",
                               slot |-> 0, idx |-> i]
                   /\ found' = TRUE
                   /\ fresh' = FreshAfterInsert(fresh, k, ce)
              ELSE /\ cache' = cache
                   /\ dtte' = [key |-> ck, rank |-> owner, loc |-> "buf",
                               slot |-> 0, idx |-> 1]
                   /\ found' = FALSE
                   /\ fresh' = fresh
    /\ pkey' = k
    /\ pc' = "probed"
    /\ lastProbe' = "get"
    /\ gotKey' = table[OwnerRank(k, mpi_size)][ClusterKey(k, clusterCount)].key
    /\ checkFired' \in TagCheck(ToUint16(ClusterKey(k, clusterCount)),
                                ClusterKey(k, clusterCount))
    /\ UNCHANGED <<nodeVars, generation8, table, bufVars, hashVars, lastSave,
                   nsaves, id_buffer, putlog, flushed, mergeVars, lockVars, loopVars>>

\* the buffer slots a flush puts: for (int i = 0; i < MaxBuffer; ++i)
FlushSlotsButLast == 0..(MaxBuffer - 2)

FlushSlots == 0..(MaxBuffer - 1)

\* the stores after the MPI_Put of every buffered cluster to cluster key_buffer[i]
\* of rank rank_buffer[i] inside one access epoch.  Two Puts of one epoch to the
\* same cluster leave either of them there.
FlushOutcomes(tab, cbuf, kbuf, rbuf) ==
    LET targets == {<<rbuf[i], kbuf[i]>> : i \in FlushSlots}
        winners == {w \in [targets -> FlushSlots] :
                       \A tg \in targets : <<rbuf[w[tg]], kbuf[w[tg]]>> = tg}
    IN  {[r \in DOMAIN tab |-> [c \in DOMAIN tab[r] |->
             IF <<r, c>> \in targets THEN cbuf[w[<<r, c>>]] ELSE tab[r][c]]] :
         w \in winners}

\* history: the Puts of one flush, in the order they are issued
FlushLog(cbuf, kbuf, rbuf, ids) ==
    [n \in 1..Cardinality(FlushSlots) |->
        [id |-> ids[n - 1], rank |-> rbuf[n - 1], key |-> kbuf[n - 1],
         cluster |-> cbuf[n - 1]]]

\* Save on a handle of a remote key: tte->save(...) writes the entry behind the
\* handle (in cluster_buf after a Get, in the cache after a cache hit), then
\* DistTTEntry::save(cluster_buf) appends the cluster to the Write Buffer or, when
\* the buffer is full, flushes the buffer and returns
SaveRemote(v, b, d, m, ev) ==
    /\ pc = "probed"
    /\ dtte.rank # mpi_rank
    /\ dtte.loc \in {"buf", "cache"}
    /\ nsaves < MaxBuffer + ExtraSaves
    /\ LET old  == IF dtte.loc = "buf" THEN cluster_buf.entry[dtte.idx]
                   ELSE cache[dtte.slot][dtte.idx]
           new  == TTEntrySave(old, pkey, v, b, d, m, ev, generation8)
           buf1 == IF dtte.loc = "buf"
                   THEN [cluster_buf EXCEPT !.entry[dtte.idx] = new]
                   ELSE cluster_buf
       IN  /\ cluster_buf' = buf1
           /\ cache' = IF dtte.loc = "cache"
                       THEN [cache EXCEPT ![dtte.slot][dtte.idx] = new]
                       ELSE cache
           /\ nsaves' = nsaves + 1
           /\ IF buffer_size < MaxBuffer
              THEN /\ cluster_buffer' = [cluster_buffer EXCEPT ![buffer_size] = buf1]
                   /\ key_buffer' = [key_buffer EXCEPT ![buffer_size] = ToUint16(dtte.key)]
                   /\ rank_buffer' = [rank_buffer EXCEPT ![buffer_size] = ToUint16(dtte.rank)]
                   /\ id_buffer' = [id_buffer EXCEPT ![buffer_size] = nsaves + 1]
                   /\ buffer_size' = buffer_size + 1
                   /\ UNCHANGED <<table, putlog, flushed>>
              ELSE /\ buffer_size' = 0
                   /\ table' \in FlushOutcomes(table, cluster_buffer, key_buffer, rank_buffer)
                   /\ putlog' = putlog \o FlushLog(cluster_buffer, key_buffer,
                                                   rank_buffer, id_buffer)
                   /\ flushed' = {id_buffer[i] : i \in FlushSlots}
                   /\ UNCHANGED <<cluster_buffer, key_buffer, rank_buffer, id_buffer>>
    /\ pc' = "idle"
    /\ UNCHANGED <<nodeVars, generation8, dtte, found, pkey, hashVars, lastSave,
                   lastProbe, fresh, mergeVars, checkVars, lockVars,
                   loopVars>>

(* Specification of node 0 of NumNodes: remote Probe and Save *)

\* keys of rank 1 in both clusters, sharing one cache slot, and a key of rank 2
DistKeys ==
    {MkKey(h, 1, 0) : h \in 1..3} \cup {MkKey(4, 1, 1), MkKey(1, 2, 0)}

\* an entry as its owner saved it
OwnerEntry(h) ==
    [key16 |-> h, move16 |-> 9, value16 |-> 5, eval16 |-> 0,
     genBound8 |-> BOUND_LOWER, depth8 |-> 6]

\* the store of rank 1 after its own search has saved its keys
OwnerTable(count) ==
    [i \in 0..(count - 1) |->
        [entry |-> IF i = 0 THEN [j \in 1..ClusterSize |-> OwnerEntry(j)]
                   ELSE IF i = 1 THEN [j \in 1..ClusterSize |->
                                          IF j = 1 THEN OwnerEntry(4) ELSE ZeroEntry]
                   ELSE ZeroEntries,
         key |-> ToUint16(i)]]

Init ==
    /\ mpi_rank = 0
    /\ mpi_size = NumNodes
    /\ clusterCount = Pow2(ClusterBits)
    /\ generation8 = 0
    /\ table = [r \in 0..(NumNodes - 1) |->
                   IF r = 1 THEN OwnerTable(Pow2(ClusterBits))
                   ELSE FreshTable(Pow2(ClusterBits))]
    /\ cache = [c \in 0..(CacheCount - 1) |-> ZeroEntries]
    /\ buffer_size = 0
    /\ cluster_buffer = [i \in 0..(MaxBuffer - 1) |-> [entry |-> ZeroEntries, key |-> 0]]
    /\ key_buffer = [i \in 0..(MaxBuffer - 1) |-> 0]
    /\ rank_buffer = [i \in 0..(MaxBuffer - 1) |-> 0]
    /\ cluster_buf = [entry |-> ZeroEntries, key |-> 0]
    /\ dtte = NoHandle
    /\ found = FALSE
    /\ pkey = NoKey
    /\ pc = "idle"
    /\ hfResult = -1
    /\ hfAllCurrent = FALSE
    /\ lastSave = NoSave
    /\ nsaves = 0
    /\ id_buffer = [i \in 0..(MaxBuffer - 1) |-> 0]
    /\ putlog = <<>>
    /\ flushed = {}
    /\ lastProbe = "none"
    /\ fresh = [k \in DistKeys |-> -1]
    /\ InitNoMerge
    /\ InitRest

Next ==
    \/ \E k \in DistKeys : ProbeCacheHit(k)
    \/ \E k \in DistKeys : ProbeGet(k)
    \/ SaveRemote(1, BOUND_LOWER, 3, 7, 0)

Spec == Init /\ [][Next]_vars

(* Specification of node 0 of NumNodes with more than 2^16 clusters per node. *)
(* Only the clusters the keys reach are kept: i and i + 2^16 for i < 2.        *)

TagIndexes == {0, 1, Pow2(16), Pow2(16) + 1}

\* memset and table[i].key = i of resize, key being a uint16_t
FreshClusters(indexes) ==
    [i \in indexes |-> [entry |-> ZeroEntries, key |-> ToUint16(i)]]

\* local keys and keys of ranks 1 and 2, in clusters 0 and 2^16
TagKeys ==
    {MkKey(1, m, l) : m \in {0, 1}, l \in {0, Pow2(16)}} \cup {MkKey(1, 2, 0)}

InitTag ==
    /\ InitStores(0, NumNodes, Pow2(ClusterBits + 16),
                  [r \in 0..(NumNodes - 1) |-> FreshClusters(TagIndexes)])
    /\ fresh = [k \in TagKeys |-> -1]
    /\ InitNoMerge
    /\ InitRest

NextTag ==
    \/ \E k \in TagKeys : ProbeLocal(k)
    \/ SaveLocal(1, BOUND_LOWER, 3, 7, 0)
    \/ \E k \in TagKeys : ProbeCacheHit(k)
    \/ \E k \in TagKeys : ProbeGet(k)
    \/ SaveRemote(1, BOUND_LOWER, 3, 7, 0)

SpecTag == InitTag /\ [][NextTag]_vars

(* Specification of node 0 of NumNodes probing stores whose tags get damaged *)

\* the fault the integrity check is there for: the tag of a cluster of another
\* node's store, which every peer can write through the window, is changed
CorruptTag(r, i, t) ==
    /\ r # mpi_rank
    /\ table[r][i].key # t
    /\ table' = [table EXCEPT ![r][i].key = t]
    /\ UNCHANGED <<nodeVars, generation8, cache, bufVars, probeVars, hashVars,
                   lastSave, distHist, mergeVars, checkVars, lockVars, loopVars>>

NextCheck ==
    \/ \E k \in DistKeys : ProbeCacheHit(k)
    \/ \E k \in DistKeys : ProbeGet(k)
    \/ \E r \in 0..(NumNodes - 1), i \in 0..(Pow2(ClusterBits) - 1), t \in {0, 1} :
           CorruptTag(r, i, t)

SpecCheck == Init /\ [][NextCheck]_vars

(* Specification of node 0 of NumNodes probing keys that miss: a key absent   *)
(* from a partly filled cluster of rank 1, a key absent from a full cluster   *)
(* whose first entry is not the least valuable, and keys whose top 16 bits    *)
(* are zero, local and remote.                                                *)

MissKeys ==
    {MkKey(5, 1, 1), MkKey(5, 1, 0), MkKey(4, 1, 1), MkKey(0, 1, 0), MkKey(0, 0, 0)}

\* the store of rank 1 after its own search: cluster 0 full, its second entry
\* the shallowest; cluster 1 with one entry
MissTable(count) ==
    [i \in 0..(count - 1) |->
        [entry |-> IF i = 0
                   THEN [j \in 1..ClusterSize |->
                            IF j = 2 THEN [OwnerEntry(j) EXCEPT !.depth8 = 1]
                            ELSE OwnerEntry(j)]
                   ELSE OwnerTable(count)[i].entry,
         key |-> ToUint16(i)]]

InitMiss ==
    /\ InitStores(0, NumNodes, Pow2(ClusterBits),
                  [r \in 0..(NumNodes - 1) |->
                      IF r = 1 THEN MissTable(Pow2(ClusterBits))
                      ELSE FreshTable(Pow2(ClusterBits))])
    /\ fresh = [k \in MissKeys |-> -1]
    /\ InitNoMerge
    /\ InitRest

NextMiss ==
    \/ \E k \in MissKeys : ProbeLocal(k)
    \/ SaveLocal(1, BOUND_LOWER, 3, 7, 0)
    \/ \E k \in MissKeys : ProbeCacheHit(k)
    \/ \E k \in MissKeys : ProbeGet(k)
    \/ SaveRemote(1, BOUND_LOWER, 3, 7, 0)

SpecMiss == InitMiss /\ [][NextMiss]_vars

(* Search threads of one node, statement by statement.  thr[t] holds thread   *)
(* t's position pc, loop index i, its array locked[] as a set of ranks, the    *)
(* rank of its Get, and as history the window locks it acquired in its flush   *)
(* (acq) and whether it issued a Put to a rank whose window lock the process   *)
(* did not hold (bad).                                                         *)

Threads == 1..NumThreads

IdleThread == [pc |-> "idle", i |-> 0, locked |-> {}, rank |-> 0,
               acq |-> <<>>, bad |-> FALSE]

ThreadFrame ==
    UNCHANGED <<nodeVars, generation8, cache, cluster_buf, dtte, found, pkey, pc,
                hashVars, lastSave, nsaves, putlog, flushed, lastProbe, fresh,
                mergeVars, checkVars, loopVars>>

\* DistTTEntry::save up to the test of buffer_size (part_002:97-103), with no
\* lock held: the thread goes on to append, or to flush
ThreadSave(t, r) ==
    /\ variant = "cache"
    /\ thr[t].pc = "idle"
    /\ r # mpi_rank
    /\ thr' = [thr EXCEPT ![t] =
                  [@ EXCEPT !.pc = IF buffer_size < MaxBuffer THEN "s_write" ELSE "f_lock",
                            !.rank = r]]
    /\ UNCHANGED <<table, mpi_lock, win_lock, bufVars, id_buffer>>
    /\ ThreadFrame

\* the append (part_002:104-108), still with no lock held: the three arrays are
\* written at the index buffer_size has now, then ++buffer_size.  At an index
\* of MaxBuffer or more the writes fall behind the arrays: they leave the
\* arrays as they are or land in the static that follows cluster_buffer.
\* id_buffer[i] is history: the thread whose write is queued in slot i and has
\* not been put yet, or 0
ThreadAppend(t) ==
    /\ thr[t].pc = "s_write"
    /\ IF buffer_size < MaxBuffer
       THEN /\ cluster_buffer' = [cluster_buffer EXCEPT ![buffer_size] = cluster_buf]
            /\ key_buffer' = [key_buffer EXCEPT ![buffer_size] = cluster_buf.key]
            /\ rank_buffer' = [rank_buffer EXCEPT ![buffer_size] = ToUint16(thr[t].rank)]
            /\ id_buffer' = [id_buffer EXCEPT ![buffer_size] = t]
       ELSE /\ key_buffer' \in {key_buffer, [key_buffer EXCEPT ![0] = cluster_buf.key]}
            /\ UNCHANGED <<cluster_buffer, rank_buffer, id_buffer>>
    /\ buffer_size' = buffer_size + 1
    /\ thr' = [thr EXCEPT ![t] = [@ EXCEPT !.pc = "idle", !.rank = 0]]
    /\ UNCHANGED <<table, mpi_lock, win_lock>>
    /\ ThreadFrame

\* mpi_lock.lock(); buffer_size = 0; bool locked[8] = {false}  (part_002:111-113)
FlushLock(t) ==
    /\ thr[t].pc = "f_lock"
    /\ mpi_lock = 0
    /\ mpi_lock' = t
    /\ buffer_size' = 0
    /\ thr' = [thr EXCEPT ![t] = [@ EXCEPT !.pc = "f_win", !.i = 0, !.locked = {},
                                          !.acq = <<>>]]
    /\ UNCHANGED <<table, win_lock, cluster_buffer, key_buffer, rank_buffer, id_buffer>>
    /\ ThreadFrame

\* one iteration of the loop that takes the window locks (part_002:114-119)
FlushWinLock(t) ==
    /\ thr[t].pc = "f_win"
    /\ LET i == thr[t].i
           r == rank_buffer[i]
           last == (i + 1 = MaxBuffer)
       IN  IF r \notin thr[t].locked
           THEN /\ win_lock' = win_lock \cup {r}
                /\ thr' = [thr EXCEPT ![t] =
                              [@ EXCEPT !.locked = @ \cup {r}, !.acq = Append(@, r),
                                        !.i = IF last THEN 0 ELSE i + 1,
                                        !.pc = IF last THEN "f_put" ELSE "f_win"]]
           ELSE /\ win_lock' = win_lock
                /\ thr' = [thr EXCEPT ![t] =
                              [@ EXCEPT !.i = IF last THEN 0 ELSE i + 1,
                                        !.pc = IF last THEN "f_put" ELSE "f_win"]]
    /\ UNCHANGED <<table, mpi_lock, bufVars, id_buffer>>
    /\ ThreadFrame

\* one iteration of the loop of MPI_Put (part_002:121-124)
FlushPut(t) ==
    /\ thr[t].pc = "f_put"
    /\ LET i == thr[t].i
           r == rank_buffer[i]
           last == (i + 1 = MaxBuffer)
       IN  /\ table' = [table EXCEPT ![r][key_buffer[i]] = cluster_buffer[i]]
           /\ thr' = [thr EXCEPT ![t] =
                         [@ EXCEPT !.bad = @ \/ r \notin win_lock \/ mpi_lock # t,
                                   !.i = IF last THEN 0 ELSE i + 1,
                                   !.pc = IF last THEN "f_unlock" ELSE "f_put"]]
    /\ id_buffer' = [id_buffer EXCEPT ![thr[t].i] = 0]
    /\ UNCHANGED <<mpi_lock, win_lock, bufVars>>
    /\ ThreadFrame

\* MPI_Win_unlock of every rank in locked[], mpi_lock.unlock()  (part_002:126-131)
FlushUnlock(t) ==
    /\ thr[t].pc = "f_unlock"
    /\ win_lock' = win_lock \ thr[t].locked
    /\ mpi_lock' = 0
    /\ thr' = [thr EXCEPT ![t] = [@ EXCEPT !.pc = "idle", !.locked = {}]]
    /\ UNCHANGED <<table, bufVars, id_buffer>>
    /\ ThreadFrame

\* probe of a remote key that misses the cache: mpi_lock.lock(), MPI_Win_lock
\* (part_002:154-155)
GetLock(t, r) ==
    /\ variant = "cache"
    /\ thr[t].pc = "idle"
    /\ r # mpi_rank
    /\ mpi_lock = 0
    /\ mpi_lock' = t
    /\ win_lock' = win_lock \cup {r}
    /\ thr' = [thr EXCEPT ![t] = [@ EXCEPT !.pc = "g_xfer", !.rank = r]]
    /\ UNCHANGED <<table, bufVars, id_buffer>>
    /\ ThreadFrame

\* MPI_Get into the thread's own cluster_buf, MPI_Win_unlock, mpi_lock.unlock()
\* (part_002:156-159)
GetUnlock(t) ==
    /\ thr[t].pc = "g_xfer"
    /\ win_lock' = win_lock \ {thr[t].rank}
    /\ mpi_lock' = 0
    /\ thr' = [thr EXCEPT ![t] = [@ EXCEPT !.pc = "idle", !.rank = 0]]
    /\ UNCHANGED <<table, bufVars, id_buffer>>
    /\ ThreadFrame

\* probe of a remote key in the send/recv variant: MPI_Send of the key, with no
\* lock taken (tt.cpp:111-113)
SendKey(t, r) ==
    /\ variant = "sendrecv"
    /\ thr[t].pc = "idle"
    /\ r # mpi_rank
    /\ thr' = [thr EXCEPT ![t] = [@ EXCEPT !.pc = "sr_wait", !.rank = r]]
    /\ UNCHANGED <<table, mpi_lock, win_lock, bufVars, id_buffer>>
    /\ ThreadFrame

\* MPI_Recv of the owner's answer (tt.cpp:114-119)
RecvEntry(t) ==
    /\ thr[t].pc = "sr_wait"
    /\ thr' = [thr EXCEPT ![t] = [@ EXCEPT !.pc = "idle", !.rank = 0]]
    /\ UNCHANGED <<table, mpi_lock, win_lock, bufVars, id_buffer>>
    /\ ThreadFrame

\* updateLoop of the replicated variant enters MPI_Allreduce for a batch, with
\* no lock taken (tt.cpp:360-362); thread 1 runs the loop
ReduceEnter(t) ==
    /\ variant = "replicated"
    /\ t = 1
    /\ thr[t].pc = "idle"
    /\ thr' = [thr EXCEPT ![t].pc = "reduce"]
    /\ UNCHANGED <<table, mpi_lock, win_lock, bufVars, id_buffer>>
    /\ ThreadFrame

\* MPI_Allreduce returns
ReduceLeave(t) ==
    /\ thr[t].pc = "reduce"
    /\ thr' = [thr EXCEPT ![t].pc = "idle"]
    /\ UNCHANGED <<table, mpi_lock, win_lock, bufVars, id_buffer>>
    /\ ThreadFrame

InitThreads ==
    /\ variant \in Variants
    /\ InitNode(0, NumNodes, Pow2(ClusterBits))
    /\ fresh = [k \in {NoKey} |-> -1]
    /\ InitNoMerge
    /\ checkFired = FALSE
    /\ gotKey = -1
    /\ mpi_lock = 0
    /\ win_lock = {}
    /\ thr = [t \in Threads |-> IdleThread]
    /\ stop = FALSE
    /\ ubatch = 0
    /\ upc = "off"
    /\ cbatch = <<>>
    /\ stopReads = 0
    /\ applied = 0
    /\ loops = <<>>

NextThreads ==
    \E t \in Threads :
        \/ \E r \in 0..(NumNodes - 1) : ThreadSave(t, r)
        \/ ThreadAppend(t)
        \/ FlushLock(t)
        \/ FlushWinLock(t)
        \/ FlushPut(t)
        \/ FlushUnlock(t)
        \/ \E r \in 0..(NumNodes - 1) : GetLock(t, r)
        \/ GetUnlock(t)
        \/ \E r \in 0..(NumNodes - 1) : SendKey(t, r)
        \/ RecvEntry(t)
        \/ ReduceEnter(t)
        \/ ReduceLeave(t)

SpecThreads == InitThreads /\ [][NextThreads]_vars

(* Properties of the Write Buffer and the Local Read Cache *)

\* the buffer slots whose write goes to the same cluster of the same rank as slot i
SameTarget(i) ==
    {j \in 0..(MaxBuffer - 1) :
        rank_buffer[j] = rank_buffer[i] /\ key_buffer[j] = key_buffer[i]}

\* C1: a Save that finds MaxBuffer writes queued flushes them: every queued write
\* is put exactly once, to the cluster and rank it was queued for, no other
\* cluster of any node changes, and the Write Buffer is empty afterwards.
C1_FlushDeliversAll ==
    [][(buffer_size = MaxBuffer /\ nsaves' # nsaves) =>
          /\ buffer_size' = 0
          /\ Len(putlog') = Len(putlog) + MaxBuffer
          /\ \A n \in 1..Len(putlog) : putlog'[n] = putlog[n]
          /\ \A i \in 0..(MaxBuffer - 1) :
                /\ Cardinality({n \in (Len(putlog) + 1)..Len(putlog') :
                                   putlog'[n].id = id_buffer[i]}) = 1
                /\ \E n \in (Len(putlog) + 1)..Len(putlog') :
                       putlog'[n] = [id |-> id_buffer[i], rank |-> rank_buffer[i],
                                     key |-> key_buffer[i],
                                     cluster |-> cluster_buffer[i]]
                /\ table'[rank_buffer[i]][key_buffer[i]]
                       \in {cluster_buffer[j] : j \in SameTarget(i)}
          /\ \A r \in DOMAIN table : \A c \in DOMAIN table[r] :
                (\A i \in 0..(MaxBuffer - 1) :
                     rank_buffer[i] # r \/ key_buffer[i] # c)
                => table'[r][c] = table[r][c]]_vars

\* a flush has just delivered writes queued for two distinct nodes
C1_Witness ==
    /\ pc = "idle"
    /\ buffer_size = 0
    /\ flushed # {}
    /\ Len(putlog) >= MaxBuffer
    /\ \E n, o \in 1..Len(putlog) :
          /\ putlog[n].rank # putlog[o].rank
          /\ putlog[n].id \in flushed
          /\ putlog[o].id \in flushed
          /\ table[putlog[n].rank][putlog[n].key] = putlog[n].cluster
          /\ table[putlog[o].rank][putlog[o].key] = putlog[o].cluster

\* C2: after any sequence of remote Saves, every saved cluster snapshot (numbered
\* 1..nsaves) is either still queued in the Write Buffer or has been put to its
\* owner; in particular the Save that triggers a flush is queued after it.
C2_NoSaveLost ==
    \A id \in 1..nsaves :
        \/ \E i \in 0..(buffer_size - 1) : id_buffer[i] = id
        \/ \E n \in 1..Len(putlog) : putlog[n].id = id

\* C6: once a Probe of remote key K was answered found by a Get, and fewer than
\* ClusterSize entries have since been inserted into K's cache slot, a Probe of K
\* is answered found from the cache, with no Get and no change of any store.
C6_CacheHitNoRoundTrip ==
    [][(pc' = "probed" /\ fresh[pkey'] >= 0) =>
          /\ lastProbe' = "cache"
          /\ found'
          /\ dtte'.loc = "cache"
          /\ Key16(pkey') = cache[dtte'.slot][dtte'.idx].key16
          /\ table' = table
          /\ cache' = cache]_vars

\* K answered from the last entry of its cache slot, after ClusterSize - 1
\* later insertions
C6_Witness ==
    /\ pc = "probed"
    /\ lastProbe = "cache"
    /\ found
    /\ fresh[pkey] = ClusterSize - 1
    /\ dtte.idx = ClusterSize

---------------------------------------------------------------------------
(* Collective merge of the replicated variant: TranspositionTable::clusterOp *)
(* (src/src/tt.cpp 288-320), the user-defined reduction of MPI_Allreduce.     *)
(* A cluster is [entry, padding]; index x of ttes[] and values[] runs 1..6.   *)

\* memcpy(&ttes[0], inouttte, ...); memcpy(&ttes[ClusterSize], intte, ...)
MergeTtes(inv, inout) ==
    [x \in 1..(2 * ClusterSize) |->
        IF x <= ClusterSize THEN inout.entry[x] ELSE inv.entry[x - ClusterSize]]

\* values[j] is computed from intte[j], values[j + ClusterSize] from inouttte[j]
MergeValues(inv, inout, gen) ==
    [x \in 1..(2 * ClusterSize) |->
        IF x <= ClusterSize THEN ReplaceValue(inv.entry[x], gen)
        ELSE ReplaceValue(inout.entry[x - ClusterSize], gen)]

\* std::sort of a[] by values[x] > values[y]: the order of equal values is
\* unspecified, so every descending arrangement is a possible outcome.  Only
\* a[0 .. ClusterSize-1] is read afterwards.
SortedPrefixes(values) ==
    {t \in [1..ClusterSize -> 1..(2 * ClusterSize)] :
        /\ \A i, j \in 1..ClusterSize : i < j => t[i] # t[j] /\ values[t[i]] >= values[t[j]]
        /\ \A x \in 1..(2 * ClusterSize) :
               (\A i \in 1..ClusterSize : t[i] # x) => values[x] <= values[t[ClusterSize]]}

\* one iteration of the loop of clusterOp: the possible contents of inoutvec[i]
\* after the call (padding taken as a 16-bit counter)
ClusterOp(inv, inout, gen) ==
    UNION {{[entry |-> [j \in 1..ClusterSize |-> ttes[t[j]]],
             padding |-> ToUint16(inout.padding + inv.padding)] :
                t \in SortedPrefixes(values)} :
           values \in {MergeValues(inv, inout, gen)}, ttes \in {MergeTtes(inv, inout)}}

MergeEntry(k, d, gb) ==
    [key16 |-> k, move16 |-> 0, value16 |-> 0, eval16 |-> 0, genBound8 |-> gb, depth8 |-> d]

\* entries as Save leaves them at generation 0 and, before the wrap, at 252
MergeEntrySet ==
    {ZeroEntry, MergeEntry(1, 10, BOUND_LOWER), MergeEntry(1, 5, BOUND_LOWER),
     MergeEntry(2, 5, BOUND_LOWER), MergeEntry(3, 9, 252 + BOUND_LOWER)}

\* clusters as Probe and Save fill them: distinct keys, empty slots last
MergeClusters ==
    {c \in [1..ClusterSize -> MergeEntrySet] :
        \A i, j \in 1..ClusterSize :
            i < j => /\ (c[i].key16 = 0 => c[j].key16 = 0)
                     /\ (c[j].key16 # 0 => c[i].key16 # c[j].key16)}

\* the clusters of the first two nodes: key 1 in the first slot, or key 2 there
\* and no slot empty
OperandClusters ==
    {c \in MergeClusters :
        c[1].key16 = 1 \/ (c[1].key16 = 2 /\ c[ClusterSize].key16 # 0)}

\* the third node's cluster: full, its oldest entry first
ThirdClusters ==
    {c \in MergeClusters : c[1].key16 = 3 /\ c[2].depth8 = 5 /\ c[3].key16 # 0}

InitMerge ==
    /\ InitNode(0, NumNodes, Pow2(ClusterBits))
    /\ fresh = [k \in {NoKey} |-> -1]
    /\ invec \in {[entry |-> c, padding |-> 1] : c \in OperandClusters}
    /\ inoutvec \in {[entry |-> c, padding |-> 1] : c \in OperandClusters}
    /\ thirdvec \in {[entry |-> c, padding |-> 0] : c \in ThirdClusters}
    /\ mergeOut = [entry |-> ZeroEntries, padding |-> 0]
    /\ mergeKind = "none"
    /\ InitRest

\* the operands stay as drawn (each run merges them once: mergeKind = "none")
MergeFrame ==
    UNCHANGED <<nodeVars, generation8, table, cache, bufVars, probeVars, hashVars,
                lastSave, distHist, invec, inoutvec, thirdvec, checkVars, lockVars,
                loopVars>>

\* clusterOp(invec, inoutvec): mergeOut is inoutvec after the call
MergeOp ==
    /\ mergeKind = "none"
    /\ mergeOut' \in ClusterOp(invec, inoutvec, generation8)
    /\ mergeKind' = "op"
    /\ MergeFrame

\* clusterOp with the operands exchanged
MergeSwapped ==
    /\ mergeKind = "none"
    /\ mergeOut' \in ClusterOp(inoutvec, invec, generation8)
    /\ mergeKind' = "swapped"
    /\ MergeFrame

\* clusterOp(invec, invec): a snapshot merged with itself
MergeSelf ==
    /\ mergeKind = "none"
    /\ mergeOut' \in ClusterOp(invec, invec, generation8)
    /\ mergeKind' = "self"
    /\ MergeFrame

\* the possible results of (a op b) op c, where x op y is clusterOp(x, y)
ReduceLeftResults(a, b, c, gen) ==
    UNION {ClusterOp(r, c, gen) : r \in ClusterOp(a, b, gen)}

\* the possible results of a op (b op c)
ReduceRightResults(a, b, c, gen) ==
    UNION {ClusterOp(a, r, gen) : r \in ClusterOp(b, c, gen)}

\* a reduction of three nodes' clusters grouped to the left
ReduceLeft ==
    /\ mergeKind = "none"
    /\ mergeOut' \in ReduceLeftResults(invec, inoutvec, thirdvec, generation8)
    /\ mergeKind' = "left"
    /\ MergeFrame

\* the same reduction grouped to the right
ReduceRight ==
    /\ mergeKind = "none"
    /\ mergeOut' \in ReduceRightResults(invec, inoutvec, thirdvec, generation8)
    /\ mergeKind' = "right"
    /\ MergeFrame

NextMerge ==
    \/ MergeOp
    \/ MergeSwapped
    \/ MergeSelf
    \/ ReduceLeft
    \/ ReduceRight

SpecMerge == InitMerge /\ [][NextMerge]_vars

(* Properties of the merge *)

EntryCount(seq, e) == Cardinality({j \in 1..ClusterSize : seq[j] = e})

\* two clusters keep the same entries, each as often
SameEntries(x, y) ==
    \A e \in {x[j] : j \in 1..ClusterSize} \cup {y[j] : j \in 1..ClusterSize} :
        EntryCount(x, e) = EntryCount(y, e)

\* out holds ClusterSize of the 2 * ClusterSize entries of a and b, none of the
\* others has a higher value than the kept ones, and out is in descending order
\* of value, every value being that of the entry itself
TopByOwnValue(out, a, b, gen) ==
    LET all == [x \in 1..(2 * ClusterSize) |->
                   IF x <= ClusterSize THEN b[x] ELSE a[x - ClusterSize]]
    IN  \E t \in [1..ClusterSize -> 1..(2 * ClusterSize)] :
            /\ \A i, j \in 1..ClusterSize : i < j => t[i] # t[j]
            /\ \A i \in 1..ClusterSize : out[i] = all[t[i]]
            /\ \A i, j \in 1..ClusterSize :
                   i < j => ReplaceValue(out[i], gen) >= ReplaceValue(out[j], gen)
            /\ \A x \in 1..(2 * ClusterSize) :
                   (\A i \in 1..ClusterSize : t[i] # x) =>
                       ReplaceValue(all[x], gen) <= ReplaceValue(out[ClusterSize], gen)

\* C3: the merged cluster consists of the C entries with the highest
\* aging-adjusted value, each value computed from the entry it ranks, among the
\* 2*C entries of the two input clusters, stored in descending order of value.
C3_MergeKeepsTop ==
    mergeKind = "op" =>
        TopByOwnValue(mergeOut.entry, invec.entry, inoutvec.entry, generation8)

\* C4: the merge is commutative and associative: merge(A,B) and merge(B,A) keep
\* the same entries, and merge(merge(A,B),C) keeps the same entries as
\* merge(A,merge(B,C)).
C4_MergeCommutesAssociates ==
    /\ mergeKind = "op" =>
           \A r \in ClusterOp(inoutvec, invec, generation8) :
               SameEntries(mergeOut.entry, r.entry)
    /\ mergeKind = "left" =>
           \A r \in ReduceRightResults(invec, inoutvec, thirdvec, generation8) :
               SameEntries(mergeOut.entry, r.entry)

\* C5: merging a cluster snapshot A with itself yields the C entries of A, and the
\* result of a larger reduction in which A takes part twice does not depend on the
\* grouping.
C5_MergeIdempotent ==
    /\ mergeKind = "self" => SameEntries(mergeOut.entry, invec.entry)
    /\ (mergeKind = "left" /\ invec.entry = inoutvec.entry) =>
           \A r \in ReduceRightResults(invec, inoutvec, thirdvec, generation8) :
               SameEntries(mergeOut.entry, r.entry)

---------------------------------------------------------------------------
(* The merge loop of the replicated variant: TranspositionTable::updateLoop  *)
(* (src/src/tt.cpp 326-377).  The node is rank 0 of two; the other rank's    *)
(* contribution to each MPI_Allreduce is an input.  Search threads probe and *)
(* save while the loop runs, and the stop signal can be raised at any time.  *)

\* if (counts[Batch] >= 1) return;
LoopReturnsLate(count) == count >= 2

LoopReturns(count) == count >= 1

\* batches the other rank can contribute to a reduction: all clusters empty,
\* or an entry in the first cluster
LoopPeerBatches ==
    {[j \in 0..(Batch - 1) |-> [entry |-> ZeroEntries, padding |-> 0]],
     [j \in 0..(Batch - 1) |->
         [entry |-> [x \in 1..ClusterSize |->
                        IF j = 0 /\ x = 1 THEN MergeEntry(2, 5, BOUND_LOWER)
                        ELSE ZeroEntry],
          padding |-> 0]]}

LoopFrame ==
    UNCHANGED <<nodeVars, generation8, cache, bufVars, probeVars, hashVars, lastSave,
                distHist, mergeVars, checkVars, lockVars, loops>>

\* if (Search::Signals.stop) counts[Batch] = 1;  if (counts[Batch] >= 1) return;
LoopCheck ==
    /\ upc = "check"
    /\ stopReads' = stopReads + 1
    /\ LET count == IF stop THEN 1 ELSE 0
       IN  upc' = IF LoopReturns(count) THEN "returned" ELSE "copy"
    /\ UNCHANGED <<table, stop, ubatch, cbatch, applied>>
    /\ LoopFrame

\* memcpy(&c[0], &table[i * Batch], sizeof(c))
LoopCopyOut ==
    /\ upc = "copy"
    /\ cbatch' = [j \in 0..(Batch - 1) |-> table[mpi_rank][ubatch * Batch + j]]
    /\ upc' = "reduce"
    /\ UNCHANGED <<table, stop, ubatch, stopReads, applied>>
    /\ LoopFrame

\* the possible contents of c[j .. Batch-1] after clusterOp has folded invec
\* into it (its loop over i < *len), as a sequence
RECURSIVE LoopReducedFrom(_, _, _, _)
LoopReducedFrom(inv, inout, gen, j) ==
    IF j = Batch THEN {<<>>}
    ELSE {<<x>> \o rest : x \in ClusterOp(inv[j], inout[j], gen),
                          rest \in LoopReducedFrom(inv, inout, gen, j + 1)}

\* MPI_Allreduce(MPI_IN_PLACE, &c[0], Batch, mpi_cluster_t, cluster_op, ...):
\* clusterOp folds the other rank's batch into c[]
LoopReduce ==
    /\ upc = "reduce"
    /\ \E peer \in LoopPeerBatches :
           /\ \A j \in 0..(Batch - 1) : cbatch[j].padding + peer[j].padding <= MaxPadding
           /\ \E s \in LoopReducedFrom(peer, cbatch, generation8, 0) :
                  cbatch' = [j \in 0..(Batch - 1) |-> s[j + 1]]
    /\ upc' = "write"
    /\ UNCHANGED <<table, stop, ubatch, stopReads, applied>>
    /\ LoopFrame

\* memcpy(&table[i * Batch], &c[0], sizeof(c)), one cluster at a time; after
\* the last cluster ++i, and for (;;) starts over after the last batch
LoopWriteBack ==
    /\ upc = "write"
    /\ table' = [table EXCEPT ![mpi_rank][ubatch * Batch + applied] = cbatch[applied]]
    /\ IF applied + 1 < Batch
       THEN /\ applied' = applied + 1
            /\ UNCHANGED <<upc, ubatch, stopReads>>
       ELSE /\ applied' = 0
            /\ stopReads' = 0
            /\ upc' = "check"
            /\ ubatch' = IF ubatch + 1 < clusterCount \div Batch THEN ubatch + 1 ELSE 0
    /\ UNCHANGED <<stop, cbatch>>
    /\ LoopFrame

\* Search::Signals.stop = true, by the thread that ends the search
SetStop ==
    /\ ~stop
    /\ stop' = TRUE
    /\ UNCHANGED <<table, ubatch, upc, cbatch, stopReads, applied>>
    /\ LoopFrame

LoopKeys == {MkKey(1, 0, 0)}

InitLoop ==
    /\ variant = "replicated"
    /\ \E n \in 1..2 :
           InitStores(0, 2, n * Batch, [r \in {0} |-> ReplicatedTable(n * Batch)])
    /\ fresh = [k \in {NoKey} |-> -1]
    /\ InitNoMerge
    /\ checkFired = FALSE
    /\ gotKey = -1
    /\ mpi_lock = 0
    /\ win_lock = {}
    /\ thr = <<>>
    /\ stop = FALSE
    /\ ubatch = 0
    /\ upc = "check"
    /\ cbatch = [j \in 0..(Batch - 1) |-> [entry |-> ZeroEntries, padding |-> 0]]
    /\ stopReads = 0
    /\ applied = 0
    /\ loops = <<>>

NextLoop ==
    \/ LoopCheck
    \/ LoopCopyOut
    \/ LoopReduce
    \/ LoopWriteBack
    \/ SetStop
    \/ \E k \in LoopKeys :
           /\ table[mpi_rank][ClusterKey(k, clusterCount)].padding < MaxPadding
           /\ ProbeReplicated(k)
    \/ SaveLocal(1, BOUND_LOWER, 1, 7, 0)

SpecLoop == InitLoop /\ [][NextLoop]_vars

---------------------------------------------------------------------------
(* The merge loops of all ranks together (src/src/tt.cpp 334-376): every rank  *)
(* runs updateLoop and has its own Search::Signals.stop.  MPI_Allreduce is a   *)
(* collective over MPI_COMM_WORLD: a rank that has called it stays in the call *)
(* until every rank has called it for the same batch.                          *)

CollFrame ==
    UNCHANGED <<nodeVars, generation8, table, cache, bufVars, probeVars, hashVars,
                lastSave, distHist, mergeVars, checkVars, lockVars, stop, ubatch, upc,
                cbatch, stopReads, applied>>

\* Search::Signals.stop = true on rank r
CollRaiseStop(r) ==
    /\ ~loops[r].stop
    /\ loops' = [loops EXCEPT ![r].stop = TRUE]
    /\ CollFrame

\* rank r at the head of a batch: if (stop) counts[Batch] = 1; if
\* (counts[Batch] >= 1) return; otherwise memcpy and the call of MPI_Allreduce.
\* Every stop flag is raised before a rank has gone through MaxReductions batches.
CollCheck(r) ==
    /\ loops[r].pc = "check"
    /\ loops[r].stop \/ loops[r].done < MaxReductions
    /\ loops' = [loops EXCEPT ![r].pc =
                    IF LoopReturns(IF loops[r].stop THEN 1 ELSE 0)
                    THEN "returned" ELSE "reduce"]
    /\ CollFrame

\* MPI_Allreduce completes on every rank once all of them are in the call;
\* memcpy back and ++i follow
CollReduce ==
    /\ \A r \in DOMAIN loops : loops[r].pc = "reduce"
    /\ loops' = [r \in DOMAIN loops |->
                    [loops[r] EXCEPT !.pc = "check", !.done = @ + 1]]
    /\ CollFrame

InitCollective ==
    /\ variant = "replicated"
    /\ InitStores(0, NumNodes, Batch, [r \in {0} |-> ReplicatedTable(Batch)])
    /\ fresh = [k \in {NoKey} |-> -1]
    /\ InitNoMerge
    /\ checkFired = FALSE
    /\ gotKey = -1
    /\ mpi_lock = 0
    /\ win_lock = {}
    /\ thr = <<>>
    /\ stop = FALSE
    /\ ubatch = 0
    /\ upc = "off"
    /\ cbatch = <<>>
    /\ stopReads = 0
    /\ applied = 0
    /\ loops = [r \in 0..(NumNodes - 1) |-> [pc |-> "check", stop |-> FALSE, done |-> 0]]

NextCollective ==
    \/ \E r \in 0..(NumNodes - 1) : CollRaiseStop(r)
    \/ \E r \in 0..(NumNodes - 1) : CollCheck(r)
    \/ CollReduce

\* every rank's loop thread keeps running, every stop flag is eventually raised,
\* and a reduction that all ranks have entered completes
SpecCollective ==
    /\ InitCollective
    /\ [][NextCollective]_vars
    /\ \A r \in 0..(NumNodes - 1) : WF_vars(CollRaiseStop(r)) /\ WF_vars(CollCheck(r))
    /\ WF_vars(CollReduce)

---------------------------------------------------------------------------
(* Properties of the local Probe / Save / hashfull path *)

\* the entry behind a handle into the local store
HandleEntry == table[mpi_rank][dtte.slot].entry[dtte.idx]

\* the state right after a local Probe of the key of the last local Save
ProbedAfterExactSave ==
    /\ pc = "probed"
    /\ lastProbe = "local"
    /\ lastSave.n = 1
    /\ lastSave.key = pkey
    /\ lastSave.b = BOUND_EXACT

\* C7 as stated: after Save(K, V, EXACT, D, M) into the slot Probe(K) designated,
\* the next Probe(K) returns found = true and a handle with value V, move M and
\* depth D, for every local key K.
C7_AsStated ==
    ProbedAfterExactSave =>
        /\ found
        /\ HandleEntry.value16 = lastSave.v
        /\ HandleEntry.move16 = lastSave.m
        /\ HandleEntry.depth8 = lastSave.d

\* C7 amended: for every local key K whose top 16 bits are not zero, the next
\* Probe(K) returns found = true and a handle with value V and depth D; its move
\* is M when M is not null or the slot did not hold K before the Save, and the
\* move the slot held before when M is null and the slot already held K.
C7_SaveProbeRoundTrip ==
    (ProbedAfterExactSave /\ Key16(pkey) # 0) =>
        /\ found
        /\ HandleEntry.value16 = lastSave.v
        /\ HandleEntry.depth8 = lastSave.d
        /\ HandleEntry.move16 =
               IF lastSave.m # MOVE_NONE \/ ~lastSave.held
               THEN lastSave.m ELSE lastSave.oldMove

C7_Witness ==
    /\ ProbedAfterExactSave
    /\ Key16(pkey) # 0
    /\ found
    /\ lastSave.held
    /\ lastSave.m = MOVE_NONE
    /\ lastSave.oldMove = 7
    /\ lastSave.d = 1
    /\ HandleEntry.depth8 = 1

NoEmptyNoMatch(tte, key16) ==
    \A j \in 1..ClusterSize : tte[j].key16 # 0 /\ tte[j].key16 # key16

\* the state right after a local Probe that found no empty and no matching entry
\* (such a Probe leaves the cluster as it was)
VictimDesignated ==
    /\ pc = "probed"
    /\ lastProbe = "local"
    /\ NoEmptyNoMatch(table[mpi_rank][dtte.slot].entry, Key16(pkey))

\* C8: when Probe finds no empty and no matching entry in a local cluster, found
\* is false and the designated victim minimises
\* depth - ((259 + G - genBound) & 0xFC) * 2, and is the lowest slot among the
\* entries of minimal value.
C8_ReplacementDeterminism ==
    VictimDesignated =>
        LET tte == table[mpi_rank][dtte.slot].entry
        IN  /\ ~found
            /\ \A j \in 1..ClusterSize :
                   ReplaceValue(tte[dtte.idx], generation8) <= ReplaceValue(tte[j], generation8)
            /\ \A j \in 1..(dtte.idx - 1) :
                   ReplaceValue(tte[j], generation8) > ReplaceValue(tte[dtte.idx], generation8)

\* a victim is designated among entries of which a later one ties with it, and
\* whose generations differ
C8_Witness ==
    /\ VictimDesignated
    /\ LET tte == table[mpi_rank][dtte.slot].entry
       IN  /\ \E j \in (dtte.idx + 1)..ClusterSize :
                  /\ ReplaceValue(tte[j], generation8) = ReplaceValue(tte[dtte.idx], generation8)
                  /\ tte[j].genBound8 # tte[dtte.idx].genBound8
           /\ dtte.idx > 1

\* C9: for the current generation G and every stored byte g, the age term
\* (259 + G - g) & 0xFC is (G - (g & 0xFC)) mod 256, whatever the two bound bits
\* of g; G stays a multiple of 4 in 0..252; an entry of generation 252 has age 4
\* at G = 0 and age 8 at G = 4, and no stored entry has a smaller age than an
\* entry of the current generation.
C9_GenerationWrap ==
    /\ generation8 \in {GenStep * n : n \in 0..63}
    /\ \A g \in 0..255 :
           AgeTerm(generation8, g) = (generation8 - BitAnd(g, 252)) % 256
    /\ \A j \in 1..ClusterSize :
           LET gb == table[mpi_rank][0].entry[j].genBound8
           IN  /\ (BitAnd(gb, 252) = 252 /\ generation8 = 0) => AgeTerm(generation8, gb) = 4
               /\ (BitAnd(gb, 252) = 252 /\ generation8 = 4) => AgeTerm(generation8, gb) = 8
               /\ AgeTerm(generation8, gb) >= AgeTerm(generation8, generation8)

\* the counter has wrapped to 4 over an entry saved at generation 252 with bound bits
C9_Witness ==
    /\ generation8 = 4
    /\ \E j \in 1..ClusterSize :
           LET e == table[mpi_rank][0].entry[j]
           IN  e.key16 # 0 /\ BitAnd(e.genBound8, 252) = 252 /\ BoundOf(e) # 0

\* C10 as stated: hashfull() returns a value in [0,1000], and exactly 1000 when
\* every entry of the first 1000/3 clusters carries the current generation.
C10_AsStated ==
    hfResult # -1 =>
        /\ hfResult \in 0..1000
        /\ hfAllCurrent => hfResult = 1000

\* C10 amended: hashfull() returns a value in [0,1000], and exactly
\* 999 = 3 * (1000 / 3) when every entry of the first 1000/3 clusters carries
\* the current generation.
C10_HashfullBounds ==
    hfResult # -1 =>
        /\ hfResult \in 0..1000
        /\ hfAllCurrent => hfResult = ClusterSize * SampleClusters

\* hashfull() was called on a sample that was all current and held a saved entry
C10_Witness ==
    /\ hfResult # -1
    /\ hfAllCurrent
    /\ AllSampledCurrent
    /\ table[mpi_rank][0].entry[1].key16 # 0
    /\ BoundOf(table[mpi_rank][0].entry[1]) # 0

\* C11: hashfull() returns 0 on a table that is all zero (freshly allocated by
\* resize or cleared), for any value of the generation counter.
C11_HashfullZeroOnFresh ==
    (hfResult # -1 /\ table[mpi_rank] = FreshTable(clusterCount)) => hfResult = 0

\* a step of SaveLocal: the only step that leaves "probed" at the same generation
SaveLocalStep ==
    pc = "probed" /\ pc' = "idle" /\ generation8' = generation8

\* C15: TTEntry::save(k, v, b, d, m, ev, g) overwrites the move if and only if m
\* is not null or the entry's key fragment differs from k's top 16 bits, and
\* overwrites key fragment, value, eval, generation/bound and depth if and only
\* if the key fragment differs, or d > stored depth - 4, or b is EXACT; every
\* other field is left as it was.
C15_EntrySaveRule ==
    [][SaveLocalStep =>
          LET old == table[mpi_rank][dtte.slot].entry[dtte.idx]
              new == table'[mpi_rank][dtte.slot].entry[dtte.idx]
              s   == lastSave'
              differs == Key16(pkey) # old.key16
          IN  /\ s.key = pkey
              /\ new.move16 = IF s.m # MOVE_NONE \/ differs THEN s.m ELSE old.move16
              /\ IF differs \/ s.d > old.depth8 - 4 \/ s.b = BOUND_EXACT
                 THEN /\ new.key16 = Key16(pkey)
                      /\ new.value16 = s.v
                      /\ new.eval16 = 0
                      /\ new.genBound8 = generation8 + s.b
                      /\ new.depth8 = s.d
                 ELSE /\ new.key16 = old.key16
                      /\ new.value16 = old.value16
                      /\ new.eval16 = old.eval16
                      /\ new.genBound8 = old.genBound8
                      /\ new.depth8 = old.depth8]_vars

\* a Save of lower depth, not EXACT, with a null move, onto the key's own entry:
\* the entry keeps value, depth and move
C15_Witness ==
    /\ pc = "idle"
    /\ lastSave.n = 1
    /\ lastSave.held
    /\ lastSave.m = MOVE_NONE
    /\ lastSave.b = BOUND_LOWER
    /\ lastSave.d = 1
    /\ lastSave.v = 2
    /\ HandleEntry.depth8 = 9
    /\ HandleEntry.value16 = 1
    /\ HandleEntry.move16 = 7

\* C14: after a call to Clear() returns, every entry of every local cluster is
\* empty, and Clear() returns normally to its caller in every configuration.
C14_ClearZeroes ==
    /\ pc # "aborted"
    /\ pc = "cleared" =>
           \A i \in DOMAIN table[mpi_rank] : \A j \in 1..ClusterSize :
               table[mpi_rank][i].entry[j].key16 = 0

\* C20: a local Probe that finds a non-empty matching entry of another generation
\* sets its generation bits to the current generation and keeps its two bound
\* bits; it changes no other field of that entry and no other entry of the
\* local table, and writes no entry when the slot is empty or a victim is
\* designated.
C20_ProbeTouch ==
    [][(pc' = "probed" /\ lastProbe' = "local") =>
          \A i \in DOMAIN table[mpi_rank] : \A j \in 1..ClusterSize :
              LET o == table[mpi_rank][i].entry[j]
                  n == table'[mpi_rank][i].entry[j]
              IN  IF found' /\ i = dtte'.slot /\ j = dtte'.idx
                  THEN /\ o.key16 = Key16(pkey') /\ o.key16 # 0
                       /\ n = [o EXCEPT !.genBound8 =
                                   generation8 + BitAnd(o.genBound8, 3)]
                  ELSE n = o]_vars

\* at generation 4 a Probe found the entry of cluster 1 and made it current,
\* while the last Save went to cluster 0, whose entries still carry generation 0
C20_Witness ==
    /\ pc = "probed"
    /\ lastProbe = "local"
    /\ found
    /\ generation8 = GenStep
    /\ dtte.slot = 1
    /\ HandleEntry.genBound8 = GenStep + BOUND_EXACT
    /\ lastSave.n = 1
    /\ ClusterKey(lastSave.key, clusterCount) = 0
    /\ \A j \in 1..(ClusterSize - 1) :
           /\ table[mpi_rank][0].entry[j].key16 # 0
           /\ BitAnd(table[mpi_rank][0].entry[j].genBound8, 252) = 0

\* the bits of a key outside the cluster index
OutsideIndex(k) ==
    [hi |-> k.hi,
     w2 |-> k.mid - BitAnd(k.mid, WideMinusOne(clusterCount).w2),
     w1 |-> (k.lo \div 65536) - BitAnd(k.lo \div 65536, WideMinusOne(clusterCount).w1),
     w0 |-> (k.lo % 65536) - BitAnd(k.lo % 65536, WideMinusOne(clusterCount).w0)]

\* C18: Probe maps every key to one owner rank in [0, N) and one cluster index
\* key & (clusterCount - 1) in [0, clusterCount), and two keys that differ only in
\* cluster-index bits have the same owner, for every power-of-two clusterCount.
C18_PartitionStability ==
    [][pc' = "probed" =>
          /\ dtte'.rank \in 0..(mpi_size - 1)
          /\ dtte'.key.w2 <= WideMinusOne(clusterCount).w2
          /\ dtte'.key.w1 <= WideMinusOne(clusterCount).w1
          /\ dtte'.key.w0 <= WideMinusOne(clusterCount).w0
          /\ (pc = "probed" /\ OutsideIndex(pkey) = OutsideIndex(pkey')) =>
                 dtte'.rank = dtte.rank]_vars

\* C16: after resize, in every state reachable through Probe, Save and applied
\* remote Puts, every cluster i of every node's store carries the tag
\* table[i].key = i, and the integrity check of a local Probe never fires.
C16_TagIsIndex ==
    /\ \A r \in DOMAIN table : \A i \in DOMAIN table[r] : table[r][i].key = i
    /\ lastProbe = "local" => ~checkFired

\* C17: when a remote Get returns a cluster whose stored tag differs from the
\* cluster index the prober expects, the integrity check fires before the
\* cluster is used as the answer.
C17_RemoteCheckFires ==
    (pc = "probed" /\ lastProbe = "get" /\ gotKey # dtte.key) => checkFired

\* thread t has a remote operation in flight
InFlight(t) == thr[t].pc \in {"g_xfer", "f_put", "sr_wait", "reduce"}

\* C12: every remote Get, every remote Put and every collective merge batch is
\* executed while the executing thread holds the process-wide lock, so no two
\* threads of one node have remote operations in flight at the same time.
C12_RemoteMutex ==
    /\ \A t \in DOMAIN thr : InFlight(t) => mpi_lock = t
    /\ \A t, u \in DOMAIN thr : (t # u /\ InFlight(t)) => ~InFlight(u)

\* C19: during a flush the process-wide lock is held throughout; the window lock
\* of each distinct target in the buffer is acquired exactly once and before any
\* Put to it; no Put goes to a target whose window lock is not held; and after
\* the flush every window lock and the process-wide lock have been released.
C19_FlushLocking ==
    /\ \A t \in DOMAIN thr :
           /\ thr[t].pc \in {"f_win", "f_put", "f_unlock"} => mpi_lock = t
           /\ \A m, n \in 1..Len(thr[t].acq) :
                  m # n => thr[t].acq[m] # thr[t].acq[n]
           /\ ~thr[t].bad
    /\ (\A t \in DOMAIN thr : thr[t].pc \in {"idle", "s_write", "f_lock"}) =>
           (win_lock = {} /\ mpi_lock = 0)

\* C13: updateLoop reads the stop flag exactly once per batch, at the check that
\* precedes the batch's copy-out and reduction; when the flag is set at that
\* read the loop returns and the store and c[] are as they were, so the batch
\* has no cluster written back; after the return nothing is copied, reduced or
\* written back, and c[] only changes in a batch whose one read found stop clear
C13_LoopCancellation ==
    [][ /\ stopReads' # stopReads =>
              \/ (upc = "check" /\ stopReads' = stopReads + 1)
              \/ (upc = "write" /\ upc' = "check" /\ stopReads' = 0)
        /\ (upc = "check" /\ upc' # "check") => stopReads' = 1
        /\ (upc = "check" /\ upc' # "check" /\ stop) =>
              (upc' = "returned" /\ table' = table /\ cbatch' = cbatch)
        /\ upc' = "returned" => applied' = 0
        /\ upc = "returned" =>
              (upc' = "returned" /\ cbatch' = cbatch /\ applied' = applied
               /\ stopReads' = stopReads)
        /\ cbatch' # cbatch => (upc \in {"copy", "reduce"} /\ stopReads = 1)
        /\ applied' # applied => (upc = "write" /\ stopReads = 1)
      ]_vars

\* the loop has returned at the check of the second batch, after the first
\* batch was reduced and written back whole
C13_Witness ==
    /\ upc = "returned"
    /\ stop
    /\ ubatch = 1
    /\ stopReads = 1
    /\ applied = 0
    /\ \E j \in 0..(Batch - 1), x \in 1..ClusterSize :
           table[mpi_rank][j].entry[x].key16 = 2

\* the entry behind the handle of the last probe, wherever it points
ProbedEntry ==
    IF dtte.loc = "table" THEN table[mpi_rank][dtte.slot].entry[dtte.idx]
    ELSE IF dtte.loc = "cache" THEN cache[dtte.slot][dtte.idx]
    ELSE cluster_buf.entry[dtte.idx]

\* C21: a Probe of a remote key whose fetched cluster holds no entry with the
\* key fragment returns found = false and designates the first empty slot of
\* the fetched cluster if there is one, otherwise the entry of lowest
\* aging-adjusted value, as the local scan and victim loop do
C21_RemoteMissVictim ==
    (pc = "probed" /\ lastProbe = "get" /\ ~found) =>
        LET tte == cluster_buf.entry
            i   == ScanFrom(tte, Key16(pkey), 1)
        IN  dtte.idx = IF i # 0 THEN i ELSE ReplaceFrom(tte, generation8, 1, 2)

\* C24: whenever Probe returns found = true, on the local path, after a Get or
\* from the Local Read Cache, the entry behind the handle is non-empty and its
\* key fragment is the top 16 bits of the probed key
C24_FoundIsRealEntry ==
    (pc = "probed" /\ found) =>
        (ProbedEntry.key16 # 0 /\ ProbedEntry.key16 = Key16(pkey))

\* C26: whenever a remote Save appends a snapshot to the Write Buffer, the
\* snapshot holds the entry just saved for the probed key, and its other
\* entries are those of the owner's cluster the preceding Probe addressed;
\* on the Get path and on the Local Read Cache path alike
C26_SaveSnapshot ==
    [][(buffer_size' = buffer_size + 1) =>
          LET snap == cluster_buffer'[buffer_size].entry
              own  == table[dtte.rank][dtte.key].entry
          IN  \E j \in 1..ClusterSize :
                  /\ snap[j].key16 = Key16(pkey)
                  /\ \A x \in 1..ClusterSize : x # j => snap[x] = own[x]
      ]_vars

\* C22: every remote write queued in the Write Buffer is addressed to the
\* cluster index key & (clusterCount - 1) and to the owner rank that the
\* originating Probe computed, and the flush puts it there
C22_PutAddressing ==
    [][/\ (buffer_size' = buffer_size + 1) =>
              /\ key_buffer'[buffer_size] = ClusterKey(pkey, clusterCount)
              /\ rank_buffer'[buffer_size] = OwnerRank(pkey, mpi_size)
       /\ (Len(putlog') > Len(putlog)) =>
              \A n \in (Len(putlog) + 1)..Len(putlog') :
                  /\ putlog'[n].key = putlog'[n].cluster.key
                  /\ putlog'[n].key \in DOMAIN table[putlog'[n].rank]
      ]_vars

\* C23: with several search threads of one node saving to remote keys, the
\* buffer size never exceeds MaxBuffer, every append writes a slot below
\* MaxBuffer, and the slot it writes holds no write that is still waiting to
\* be put (no two Saves share a slot, no queued write is overwritten)
C23_BufferUnderThreads ==
    [][/\ buffer_size' <= MaxBuffer
       /\ \A t \in DOMAIN thr :
              (thr[t].pc = "s_write" /\ thr'[t].pc = "idle") =>
                  /\ buffer_size < MaxBuffer
                  /\ id_buffer[buffer_size] = 0
      ]_vars

\* C25: when every rank runs updateLoop and every rank's stop flag is
\* eventually raised, every rank's updateLoop eventually returns
C25_CollectiveTermination ==
    <>(\A r \in DOMAIN loops : loops[r].pc = "returned")

====
